---- MODULE Spec2Model ----
(***************************************************************************)
(* Growing segment of the vector-search core: reservation of offsets       *)
(* (PreInsert), the write path (Insert, LoadFieldData, LoadFieldDataV2),    *)
(* release of raw chunks (try_remove_chunks) and the ack barrier.           *)
(* Source: internal/core/src/segcore/SegmentGrowingImpl.cpp.                *)
(* InsertRecord, AckResponder, ConcurrentVector and IndexingRecord are      *)
(* collaborators whose code is outside the analysed files; they are         *)
(* modelled from their documented contracts.                                *)
(***************************************************************************)
EXTENDS Integers, Sequences, FiniteSets, TLC

\* ------------------------------------------------------------------ bounds
\* Largest batch one PreInsert / LoadFieldData reserves.
MaxRows == 2
\* Number of PreInsert calls (direct or through LoadFieldData) in a behaviour.
MaxCalls == 2

Threads == {"t1", "t2"}
PkValues == {1, 2}

\* ------------------------------------------------------------------ schema
\* System fields (ids below START_USER_FIELDID) and the user fields of the
\* schema: an int64 primary key and a float vector.
SystemFields == {"row_id", "timestamp"}
SchemaFields == <<"pk", "vec">>
PrimaryField == "pk"
\* std::map order of LoadFieldDataInfo::field_infos (RowFieldID, TimestampFieldID, users).
LoadOrder == <<"row_id", "timestamp", "pk", "vec">>

Range(s) == {s[k] : k \in 1..Len(s)}
Interval(b, n) == b..(b + n - 1)

VARIABLES
    reserved,      \* insert_record_.reserved
    ack,           \* ack_responder_: contiguous committed prefix
    acks,          \* ack_responder_: offsets of the committed intervals
    timestamps,    \* insert_record_.timestamps_ : offset -> Timestamp
    row_ids,       \* insert_record_.row_ids_    : offset -> row id
    column,        \* insert_record_ field columns: field -> (offset -> value)
    pk2offset,     \* insert_record_ primary-key index: set of <<pk, offset>>
    index_data,    \* indexing_record_: offsets fed to the interim index of "vec"
    mem_size,      \* stats_.mem_size
    chunk_mutex,   \* chunk_mutex_: "free" or its holder
    enable_interim,\* segcore_config_.get_enable_interim_segment_index()
    th,            \* per thread: position and locals of the running operation
    reservations,  \* history: <<begin, size>> of every PreInsert, in order
    completed,     \* history: intervals whose Insert / Load committed
    failed,        \* history: reservations <<begin, size>> whose Insert raised
    deleted_record,\* deleted_record_: the log, a sequence of <<timestamp, pk>>
    call,          \* the last call of Delete, LoadDeletedRecord or of a reader:
                   \* its arguments, what it returned, and for Delete the
                   \* number of tuples its filter kept
    rd,            \* per reader: position, arguments and output of bulk_subscript
    local_fs,      \* LocalChunkManager: path -> what is stored there
    inst,          \* per VectorDiskAnnIndex: position and locals of a running
                   \* build, and the engine calls made so far
    dcall          \* the last call on a VectorDiskAnnIndex that returned

vars == <<reserved, ack, acks, timestamps, row_ids, column, pk2offset, index_data,
          mem_size, chunk_mutex, enable_interim, th, reservations, completed, failed,
          deleted_record, call, rd, local_fs, inst, dcall>>

\* The disk index and its scratch files.
disk == <<local_fs, inst, dcall>>

\* The growing segment and its callers.
segcore == <<reserved, ack, acks, timestamps, row_ids, column, pk2offset, index_data,
             mem_size, chunk_mutex, enable_interim, th, reservations, completed, failed,
             deleted_record, call, rd>>

segment == <<timestamps, row_ids, column, pk2offset, index_data, mem_size>>

\* What PreInsert, Insert and the loads of field data never touch.
deletes == <<deleted_record, call, rd, disk>>

NoCall == [op |-> "none"]

Readers == {"r1", "r2"}

\* The instances of VectorDiskAnnIndex<float>: two fields of one segment.
Instances == {"i1", "i2"}
SegmentOf(i) == "s1"
FieldOf(i) == IF i = "i1" THEN "f1" ELSE "f2"

\* GetLocalIndexObjectPrefix(), GetSegmentRawDataPathPrefix(segment_id) and
\* GenFieldRawDataPathPrefix(segment_id, field_id) + "raw_data".
IndexPrefix(i) == <<"index", SegmentOf(i), FieldOf(i)>>
RawDataPath(i) == <<"raw_data", SegmentOf(i), FieldOf(i)>>
UnderSegmentRawData(path, seg) == path[1] = "raw_data" /\ path[2] = seg

NoDataset == [rows |-> 0, dim |-> 0]
NoBuild == [pc |-> "idle", op |-> "none", dataset |-> NoDataset, ran |-> << >>]

NoRead == [pc |-> "idle", field |-> "none", seg_offsets |-> << >>, from |-> "none",
           out |-> << >>, indexed |-> {}]

Idle == [pc |-> "idle", op |-> "none", begin |-> 0, n |-> 0, rows |-> <<>>,
         data_num_rows |-> 0, fields |-> <<>>, fidx |-> 0, skip |-> FALSE, i |-> 0]

\* The batches of n rows offered to Insert and to the loads.  A batch is fixed
\* by its seed p: every row carries the timestamp p (timestamps are ordered
\* within a batch, not across batches) and the keys alternate from p on, so
\* keys repeat inside a batch of three and across batches.
RowSeqs(n) == {[k \in 1..n |-> [pk |-> ((p + k) % 2) + 1, ts |-> p]] : p \in PkValues}

\* The payload of field f for a row.
FieldValue(f, row) == IF f = PrimaryField THEN row.pk ELSE <<row.pk, row.ts>>


\* --------------------------------------------------- ConcurrentVector
\* set_data_raw(offset, data, count): the elements of vals land at
\* begin, begin + 1, ...; elements at other offsets are untouched.
set_data_raw(col, begin, vals) ==
    [o \in (DOMAIN col) \cup Interval(begin, Len(vals)) |->
        IF o \in Interval(begin, Len(vals)) THEN vals[o - begin + 1] ELSE col[o]]

\* clear(): every chunk is released.
clear(col) == << >>

\* num_chunk() > 0: the column owns at least one chunk.
HasChunks(col) == DOMAIN col # {}

\* --------------------------------------------------- AckResponder
RECURSIVE Advance(_, _)
Advance(x, covered) == IF x \in covered THEN Advance(x + 1, covered) ELSE x

\* AddSegment(seg_begin, seg_end): merge the interval and move the prefix when
\* the interval touches it.  The result is <<ack, acks>>.
AddSegment(cur, covered, seg_begin, seg_end) ==
    LET merged == covered \cup Interval(seg_begin, seg_end - seg_begin)
    IN  << IF seg_begin <= cur THEN Advance(cur, merged) ELSE cur, merged >>

\* --------------------------------------------------- IndexingRecord
\* Rows the interim index of a field needs before it is in sync.
BuildThreshold == 2

\* should_index(field_meta): only the float vector field is indexed.
ShouldIndex(f) == f = "vec"

\* The offset below which the interim index owns every row.
SyncWatermark(idx) == Advance(0, DOMAIN idx)

SyncDataWithIndex(f, idx) == ShouldIndex(f) /\ SyncWatermark(idx) >= BuildThreshold

\* AppendingIndex(reserved_offset, size, field_id, data, insert_record)
AppendingIndex(idx, f, begin, vals) ==
    IF ShouldIndex(f) THEN set_data_raw(idx, begin, vals) ELSE idx

\* --------------------------------------------------- sizes
SizeofTimestamp == 8
SizeofIdx == 8
\* GetRawDataSizeOfDataArray / GetByteSizeOfFieldDatas for num_rows rows of f:
\* an int64 key, or a float vector of dimension 2.
FieldDataSize(f, num_rows) == num_rows * (IF f = PrimaryField THEN 8 ELSE 2 * 4)

\* --------------------------------------------------- thread locals
\* The fields the running operation iterates over: the schema's user fields
\* in Insert, the entries of field_infos in the loads.
IterFields(r) == IF r.op = "Insert" THEN SchemaFields ELSE r.fields
CurField(r) == IterFields(r)[r.fidx]
Payload(r, f) == [k \in 1..r.n |-> FieldValue(f, r.rows[k])]
TsPayload(r) == [k \in 1..r.n |-> r.rows[k].ts]
RowIdPayload(r) == [k \in 1..r.n |-> r.rows[k].pk]

\* Mutation: step 4 is left out, the loop is followed by the commit.
NextField_SkipPk(r) ==
    IF r.fidx < Len(IterFields(r))
    THEN [r EXCEPT !.pc = "field", !.fidx = @ + 1, !.skip = FALSE]
    ELSE [r EXCEPT !.pc = "ack", !.skip = FALSE]

\* End of one iteration of the per-field loop.
NextField(r) ==
    IF r.fidx < Len(IterFields(r))
    THEN [r EXCEPT !.pc = "field", !.fidx = @ + 1, !.skip = FALSE]
    ELSE IF r.op = "Insert" /\ r.n > 0
         THEN [r EXCEPT !.pc = "pk", !.i = 0, !.skip = FALSE]
         ELSE [r EXCEPT !.pc = "ack", !.skip = FALSE]

\* An AssertInfo fails inside Insert: the exception leaves the call.  The
\* arguments of the failed call stay visible to the caller.
Raise(t, data_num_rows, fields) ==
    /\ failed' = failed \cup {<<th[t].begin, th[t].n>>}
    /\ th' = [th EXCEPT ![t] = [Idle EXCEPT !.pc = "raised", !.op = "Insert",
                  !.begin = th[t].begin, !.n = th[t].n,
                  !.data_num_rows = data_num_rows, !.fields = fields]]

\* --------------------------------------------------- initial state
Init ==
    /\ reserved = 0
    /\ ack = 0
    /\ acks = {}
    /\ timestamps = << >>
    /\ row_ids = << >>
    /\ column = [f \in Range(SchemaFields) |-> << >>]
    /\ pk2offset = {}
    /\ index_data = << >>
    /\ mem_size = 0
    /\ chunk_mutex = "free"
    /\ enable_interim \in BOOLEAN
    /\ th = [t \in Threads |-> Idle]
    /\ reservations = << >>
    /\ completed = {}
    /\ failed = {}
    /\ deleted_record = << >>
    /\ call = NoCall
    /\ rd = [r \in Readers |-> NoRead]
    /\ local_fs = [path \in {IndexPrefix(i) : i \in Instances} |-> [kind |-> "dir"]]
    /\ inst = [i \in Instances |-> NoBuild]
    /\ dcall = NoCall

\* --------------------------------------------------- mutated PreInsert
\* The cursor after the advance is returned in place of the one before it.
PreInsert_ReturnsNew(t, size) ==
    /\ th[t].pc = "idle"
    /\ Len(reservations) < MaxCalls
    /\ reserved' = reserved + size
    /\ reservations' = Append(reservations, <<reserved + size, size>>)
    /\ th' = [th EXCEPT ![t] = [Idle EXCEPT !.pc = "reserved", !.op = "Insert",
                                            !.begin = reserved + size, !.n = size]]
    /\ UNCHANGED <<ack, acks, segment, chunk_mutex, enable_interim, deletes, completed, failed>>

\* --------------------------------------------------- PreInsert
\* reserved.fetch_add(size): one atomic step returning the old cursor.
PreInsert(t, size) ==
    /\ th[t].pc = "idle"
    /\ Len(reservations) < MaxCalls
    /\ reserved' = reserved + size
    /\ reservations' = Append(reservations, <<reserved, size>>)
    /\ th' = [th EXCEPT ![t] = [Idle EXCEPT !.pc = "reserved", !.op = "Insert",
                                            !.begin = reserved, !.n = size]]
    /\ UNCHANGED <<ack, acks, segment, chunk_mutex, enable_interim, deletes, completed, failed>>

\* --------------------------------------------------- Insert
HasDuplicate(fields) == \E a, b \in 1..Len(fields) : a # b /\ fields[a] = fields[b]

\* Mutation: step 1 does not look for a repeated FieldId.
InsertDataValid_NoDuplicateCheck(data_num_rows, num_rows, fields) ==
    data_num_rows = num_rows

\* The two checks made before step 3.
InsertDataValid(data_num_rows, num_rows, fields) ==
    /\ data_num_rows = num_rows
    /\ ~HasDuplicate(fields)

\* Insert(reserved_offset, num_rows, row_ids, timestamps_raw, insert_data): entry,
\* the num_rows check and step 1.
Insert(t, rows, data_num_rows, fields) ==
    /\ th[t].pc = "reserved"
    /\ Len(rows) = th[t].n
    /\ IF InsertDataValid(data_num_rows, th[t].n, fields)
       THEN /\ th' = [th EXCEPT ![t] = [@ EXCEPT !.pc = "ts", !.rows = rows,
                              !.data_num_rows = data_num_rows, !.fields = fields]]
            /\ UNCHANGED failed
       ELSE Raise(t, data_num_rows, fields)
    /\ UNCHANGED <<reserved, ack, acks, segment, chunk_mutex, enable_interim, deletes,
                   reservations, completed>>

\* Mutation: the keys are entered into the key index together with the system
\* columns, ahead of the per-field loop.
InsertSystemColumns_WithPks(t) ==
    /\ th[t].pc = "ts"
    /\ timestamps' = set_data_raw(timestamps, th[t].begin, TsPayload(th[t]))
    /\ row_ids' = set_data_raw(row_ids, th[t].begin, RowIdPayload(th[t]))
    /\ mem_size' = mem_size + th[t].n * (SizeofTimestamp + SizeofIdx)
    /\ pk2offset' = pk2offset \cup
                       {<<th[t].rows[k].pk, th[t].begin + k - 1>> : k \in 1..th[t].n}
    /\ th' = [th EXCEPT ![t] = [@ EXCEPT !.pc = "field", !.fidx = 1]]
    /\ UNCHANGED <<reserved, ack, acks, column, index_data,
                   chunk_mutex, enable_interim, deletes, reservations, completed, failed>>

\* step 3: timestamps_.set_data_raw, row_ids_.set_data_raw and the size of the
\* two system columns
InsertSystemColumns(t) ==
    /\ th[t].pc = "ts"
    /\ timestamps' = set_data_raw(timestamps, th[t].begin, TsPayload(th[t]))
    /\ row_ids' = set_data_raw(row_ids, th[t].begin, RowIdPayload(th[t]))
    /\ mem_size' = mem_size + th[t].n * (SizeofTimestamp + SizeofIdx)
    /\ th' = [th EXCEPT ![t] = [@ EXCEPT !.pc = "field", !.fidx = 1]]
    /\ UNCHANGED <<reserved, ack, acks, column, pk2offset, index_data,
                   chunk_mutex, enable_interim, deletes, reservations, completed, failed>>

\* One whole iteration over a user field that has no interim index (the key):
\* SyncDataWithIndex is false for it, AppendingIndex and try_remove_chunks leave
\* it alone, so the iteration is the assertion and the write of the column.
FieldScalar(t) ==
    /\ th[t].pc = "field"
    /\ CurField(th[t]) \notin SystemFields
    /\ ~ShouldIndex(CurField(th[t]))
    /\ IF th[t].op = "Insert" /\ CurField(th[t]) \notin Range(th[t].fields)
       THEN /\ Raise(t, th[t].data_num_rows, th[t].fields)
            /\ UNCHANGED <<column, mem_size>>
       ELSE /\ column' = [column EXCEPT ![CurField(th[t])] =
                            set_data_raw(@, th[t].begin, Payload(th[t], CurField(th[t])))]
            /\ IF th[t].op = "Load" /\ CurField(th[t]) = PrimaryField
               THEN /\ th' = [th EXCEPT ![t].pc = "load_pks"]
                    /\ UNCHANGED mem_size
               ELSE /\ th' = [th EXCEPT ![t] = NextField(@)]
                    /\ mem_size' = mem_size + FieldDataSize(CurField(th[t]), th[t].n)
            /\ UNCHANGED failed
    /\ UNCHANGED <<reserved, ack, acks, timestamps, row_ids, pk2offset, index_data,
                   chunk_mutex, enable_interim, deletes, reservations, completed>>

\* Head of one iteration over an indexed user field: Insert asserts that the
\* batch carries the field, then SyncDataWithIndex is read.
FieldCheck(t) ==
    /\ th[t].pc = "field"
    /\ CurField(th[t]) \notin SystemFields
    /\ ShouldIndex(CurField(th[t]))
    /\ IF th[t].op = "Insert" /\ CurField(th[t]) \notin Range(th[t].fields)
       THEN Raise(t, th[t].data_num_rows, th[t].fields)
       ELSE /\ th' = [th EXCEPT ![t] = [@ EXCEPT !.pc = "write",
                          !.skip = SyncDataWithIndex(CurField(th[t]), index_data)]]
            /\ UNCHANGED failed
    /\ UNCHANGED <<reserved, ack, acks, segment, chunk_mutex, enable_interim, deletes,
                   reservations, completed>>

\* get_field_data_base(field_id)->set_data_raw, skipped for a synced field
FieldWrite(t) ==
    /\ th[t].pc = "write"
    /\ column' = IF th[t].skip THEN column
                 ELSE [column EXCEPT ![CurField(th[t])] =
                          set_data_raw(@, th[t].begin, Payload(th[t], CurField(th[t])))]
    /\ th' = [th EXCEPT ![t].pc = "index"]
    /\ UNCHANGED <<reserved, ack, acks, timestamps, row_ids, pk2offset, index_data, mem_size,
                   chunk_mutex, enable_interim, deletes, reservations, completed, failed>>

\* indexing_record_.AppendingIndex when the interim index is enabled
FieldIndex(t) ==
    /\ th[t].pc = "index"
    /\ index_data' = IF enable_interim
                     THEN AppendingIndex(index_data, CurField(th[t]), th[t].begin,
                                         Payload(th[t], CurField(th[t])))
                     ELSE index_data
    /\ th' = [th EXCEPT ![t].pc = "remove"]
    /\ UNCHANGED <<reserved, ack, acks, timestamps, row_ids, column, pk2offset, mem_size,
                   chunk_mutex, enable_interim, deletes, reservations, completed, failed>>

\* try_remove_chunks(fieldId): the column after the call.
try_remove_chunks(f, col, idx, mutex) ==
    IF SyncDataWithIndex(f, idx) /\ f = "vec" /\ HasChunks(col) /\ mutex = "free"
    THEN clear(col)
    ELSE col

\* Mutation: chunk_mutex_.lock() in place of try_lock(), the release waits for
\* the readers.
FieldRemove_Waits(t) ==
    /\ th[t].pc = "remove"
    /\ (SyncDataWithIndex(CurField(th[t]), index_data) /\ HasChunks(column[CurField(th[t])]))
          => chunk_mutex = "free"
    /\ column' = [column EXCEPT ![CurField(th[t])] =
                     try_remove_chunks(CurField(th[t]), @, index_data, chunk_mutex)]
    /\ IF th[t].op = "Load" /\ CurField(th[t]) = PrimaryField
       THEN /\ th' = [th EXCEPT ![t].pc = "load_pks"]
            /\ UNCHANGED mem_size
       ELSE /\ th' = [th EXCEPT ![t] = NextField(@)]
            /\ mem_size' = mem_size + FieldDataSize(CurField(th[t]), th[t].n)
    /\ UNCHANGED <<reserved, ack, acks, timestamps, row_ids, pk2offset, index_data,
                   chunk_mutex, enable_interim, deletes, reservations, completed, failed>>

\* Tail of the iteration: the mem size of the field and try_remove_chunks.
FieldRemove(t) ==
    /\ th[t].pc = "remove"
    /\ column' = [column EXCEPT ![CurField(th[t])] =
                     try_remove_chunks(CurField(th[t]), @, index_data, chunk_mutex)]
    /\ IF th[t].op = "Load" /\ CurField(th[t]) = PrimaryField
       THEN /\ th' = [th EXCEPT ![t].pc = "load_pks"]
            /\ UNCHANGED mem_size
       ELSE /\ th' = [th EXCEPT ![t] = NextField(@)]
            /\ mem_size' = mem_size + FieldDataSize(CurField(th[t]), th[t].n)
    /\ UNCHANGED <<reserved, ack, acks, timestamps, row_ids, pk2offset, index_data,
                   chunk_mutex, enable_interim, deletes, reservations, completed, failed>>

\* Mutation: insert_pk(pks[i], reserved_offset), the row number is dropped.
InsertPk_SameOffset(t) ==
    /\ th[t].pc = "pk"
    /\ pk2offset' = pk2offset \cup {<<th[t].rows[th[t].i + 1].pk, th[t].begin>>}
    /\ th' = [th EXCEPT ![t] = IF @.i + 1 < @.n THEN [@ EXCEPT !.i = @ + 1]
                               ELSE [@ EXCEPT !.pc = "ack", !.i = 0]]
    /\ UNCHANGED <<reserved, ack, acks, timestamps, row_ids, column, index_data, mem_size,
                   chunk_mutex, enable_interim, deletes, reservations, completed, failed>>

\* step 4: insert_pk(pks[i], reserved_offset + i)
InsertPk(t) ==
    /\ th[t].pc = "pk"
    /\ pk2offset' = pk2offset \cup {<<th[t].rows[th[t].i + 1].pk, th[t].begin + th[t].i>>}
    /\ th' = [th EXCEPT ![t] = IF @.i + 1 < @.n THEN [@ EXCEPT !.i = @ + 1]
                               ELSE [@ EXCEPT !.pc = "ack", !.i = 0]]
    /\ UNCHANGED <<reserved, ack, acks, timestamps, row_ids, column, index_data, mem_size,
                   chunk_mutex, enable_interim, deletes, reservations, completed, failed>>

\* Mutation: the end of the interval is taken as inclusive, one offset too many
\* is committed.
Commit_InclusiveEnd(t) ==
    /\ th[t].pc = "ack"
    /\ ack' = AddSegment(ack, acks, th[t].begin, th[t].begin + th[t].n + 1)[1]
    /\ acks' = AddSegment(ack, acks, th[t].begin, th[t].begin + th[t].n + 1)[2]
    /\ completed' = completed \cup {<<th[t].begin, th[t].n>>}
    /\ th' = [th EXCEPT ![t] = Idle]
    /\ UNCHANGED <<reserved, segment, chunk_mutex, enable_interim, deletes, reservations, failed>>

\* Mutation: the last row of the batch is not committed.
Commit_Short(t) ==
    /\ th[t].pc = "ack"
    /\ ack' = AddSegment(ack, acks, th[t].begin, th[t].begin + th[t].n - 1)[1]
    /\ acks' = AddSegment(ack, acks, th[t].begin, th[t].begin + th[t].n - 1)[2]
    /\ completed' = completed \cup {<<th[t].begin, th[t].n>>}
    /\ th' = [th EXCEPT ![t] = Idle]
    /\ UNCHANGED <<reserved, segment, chunk_mutex, enable_interim, deletes, reservations, failed>>

\* Mutation: an interval that does not start at the current prefix is dropped.
Commit_DropsOutOfOrder(t) ==
    /\ th[t].pc = "ack"
    /\ ack' = IF th[t].begin = ack
              THEN AddSegment(ack, acks, th[t].begin, th[t].begin + th[t].n)[1] ELSE ack
    /\ acks' = IF th[t].begin = ack
               THEN AddSegment(ack, acks, th[t].begin, th[t].begin + th[t].n)[2] ELSE acks
    /\ completed' = completed \cup {<<th[t].begin, th[t].n>>}
    /\ th' = [th EXCEPT ![t] = Idle]
    /\ UNCHANGED <<reserved, segment, chunk_mutex, enable_interim, deletes, reservations, failed>>

\* step 5: ack_responder_.AddSegment(reserved_offset, reserved_offset + num_rows),
\* after which the call returns.
Commit(t) ==
    /\ th[t].pc = "ack"
    /\ ack' = AddSegment(ack, acks, th[t].begin, th[t].begin + th[t].n)[1]
    /\ acks' = AddSegment(ack, acks, th[t].begin, th[t].begin + th[t].n)[2]
    /\ completed' = completed \cup {<<th[t].begin, th[t].n>>}
    /\ th' = [th EXCEPT ![t] = Idle]
    /\ UNCHANGED <<reserved, segment, chunk_mutex, enable_interim, deletes, reservations, failed>>

\* --------------------------------------------------- LoadFieldData, LoadFieldDataV2
\* The field_infos a load may be handed: any set of the known field ids.
LoadInfos == SUBSET Range(LoadOrder)

\* The assertions both loads make on the presence of fields.
LoadCarriesRequired(infos) ==
    /\ "timestamp" \in infos
    /\ "row_id" \in infos
    /\ PrimaryField \in infos

\* infos.field_infos.size() == schema_->size(); the schema holds user fields only.
LoadSizeOk(infos) == Cardinality(infos) = Len(SchemaFields)

\* infos.field_infos.size() == schema_->size() + 2
LoadSizeOkV2(infos) == Cardinality(infos) = Len(SchemaFields) + 2

\* The assertions of the two loads for a segment whose schema holds the user
\* fields schema: the size (LoadFieldData compares with schema_->size(),
\* LoadFieldDataV2 with schema_->size() + 2), then timestamp, row id and key.
LoadAsserts(op, schema, infos) ==
    /\ Cardinality(infos) = Cardinality(schema) + (IF op = "LoadFieldDataV2" THEN 2 ELSE 0)
    /\ LoadCarriesRequired(infos)

\* The user fields the loop over infos.field_infos writes or feeds to the
\* index: those the load carries.
LoadedFields(schema, infos) == infos \cap schema

\* After the assertions: PreInsert(num_rows), then the loop over field_infos.
LoadStart(t, infos, rows) ==
    /\ reserved' = reserved + Len(rows)
    /\ reservations' = Append(reservations, <<reserved, Len(rows)>>)
    /\ th' = [th EXCEPT ![t] = [Idle EXCEPT !.pc = "field", !.op = "Load",
                  !.begin = reserved, !.n = Len(rows), !.rows = rows, !.fidx = 1,
                  !.fields = SelectSeq(LoadOrder, LAMBDA f : f \in infos)]]

LoadReject(t) ==
    /\ th' = [th EXCEPT ![t] = [Idle EXCEPT !.pc = "raised"]]
    /\ UNCHANGED <<reserved, reservations>>

LoadFieldData(t, infos, rows) ==
    /\ th[t].pc = "idle"
    /\ Len(reservations) < MaxCalls
    /\ IF LoadSizeOk(infos) /\ LoadCarriesRequired(infos)
       THEN LoadStart(t, infos, rows)
       ELSE LoadReject(t)
    /\ UNCHANGED <<ack, acks, segment, chunk_mutex, enable_interim, deletes, completed, failed>>

LoadFieldDataV2(t, infos, rows) ==
    /\ th[t].pc = "idle"
    /\ Len(reservations) < MaxCalls
    /\ IF LoadSizeOkV2(infos) /\ LoadCarriesRequired(infos)
       THEN LoadStart(t, infos, rows)
       ELSE LoadReject(t)
    /\ UNCHANGED <<ack, acks, segment, chunk_mutex, enable_interim, deletes, completed, failed>>

\* The iteration of a load over the timestamp field or the row-id field.
LoadSystemColumn(t) ==
    /\ th[t].pc = "field"
    /\ CurField(th[t]) \in SystemFields
    /\ IF CurField(th[t]) = "timestamp"
       THEN /\ timestamps' = set_data_raw(timestamps, th[t].begin, TsPayload(th[t]))
            /\ UNCHANGED row_ids
       ELSE /\ row_ids' = set_data_raw(row_ids, th[t].begin, RowIdPayload(th[t]))
            /\ UNCHANGED timestamps
    /\ th' = [th EXCEPT ![t] = NextField(@)]
    /\ UNCHANGED <<reserved, ack, acks, column, pk2offset, index_data, mem_size,
                   chunk_mutex, enable_interim, deletes, reservations, completed, failed>>

\* Mutation: the offsets are counted from 0, not from the offset the rows were
\* written to.
insert_pks_FromZero(index, begin, pks) ==
    index \cup {<<pks[k], k - 1>> : k \in 1..Len(pks)}

\* InsertRecord::insert_pks(field_data): the batched form of insert_pk; the keys
\* of the loaded rows are entered for the offsets the rows were written to.
insert_pks(index, begin, pks) ==
    index \cup {<<pks[k], begin + k - 1>> : k \in 1..Len(pks)}

\* The primary field of a load: insert_pks and the mem size of the field.
LoadPks(t) ==
    /\ th[t].pc = "load_pks"
    /\ pk2offset' = insert_pks(pk2offset, th[t].begin, Payload(th[t], PrimaryField))
    /\ mem_size' = mem_size + FieldDataSize(PrimaryField, th[t].n)
    /\ th' = [th EXCEPT ![t] = NextField(@)]
    /\ UNCHANGED <<reserved, ack, acks, timestamps, row_ids, column, index_data,
                   chunk_mutex, enable_interim, deletes, reservations, completed, failed>>

\* The caller sees the exception.
Catch(t) ==
    /\ th[t].pc = "raised"
    /\ th' = [th EXCEPT ![t] = Idle]
    /\ UNCHANGED <<reserved, ack, acks, segment, chunk_mutex, enable_interim, deletes,
                   reservations, completed, failed>>

\* --------------------------------------------------- inputs
InsertFieldLists == {<<"pk", "vec">>, <<"pk">>, <<"vec">>, <<"pk", "vec", "pk">>}

\* A caller that holds a reservation calls Insert with some batch.
InsertCall(t) ==
    \E rows \in RowSeqs(th[t].n), dn \in {th[t].n, th[t].n + 1},
       fields \in InsertFieldLists : Insert(t, rows, dn, fields)

PreInsertCall(t) == \E size \in 0..MaxRows : PreInsert(t, size)

LoadFieldDataCall(t) ==
    \E infos \in LoadInfos, k \in 0..MaxRows : \E rows \in RowSeqs(k) :
        LoadFieldData(t, infos, rows)

LoadFieldDataV2Call(t) ==
    \E infos \in LoadInfos, k \in 0..MaxRows : \E rows \in RowSeqs(k) :
        LoadFieldDataV2(t, infos, rows)

\* The steps of a call that is under way, and the return of a failed one.
Progress(t) ==
    \/ InsertCall(t)
    \/ LoadSystemColumn(t)
    \/ LoadPks(t)
    \/ InsertSystemColumns(t)
    \/ FieldScalar(t)
    \/ FieldCheck(t)
    \/ FieldWrite(t)
    \/ FieldIndex(t)
    \/ FieldRemove(t)
    \/ InsertPk(t)
    \/ Commit(t)
    \/ Catch(t)

Next ==
    \E t \in Threads :
        \/ PreInsertCall(t)
        \/ InsertCall(t)
        \/ LoadFieldDataCall(t)
        \/ LoadFieldDataV2Call(t)
        \/ LoadSystemColumn(t)
        \/ LoadPks(t)
        \/ InsertSystemColumns(t)
        \/ FieldScalar(t)
        \/ FieldCheck(t)
        \/ FieldWrite(t)
        \/ FieldIndex(t)
        \/ FieldRemove(t)
        \/ InsertPk(t)
        \/ Commit(t)
        \/ Catch(t)

Spec == Init /\ [][Next]_vars

\* Every thread that is inside a call, or holds a reservation it has yet to
\* insert, keeps being scheduled.
FairSpec == Spec /\ \A t \in Threads : WF_vars(Progress(t))

\* --------------------------------------------------- search_ids
\* InsertRecord::search_pk(pk, timestamp): the offsets entered for pk whose
\* insert timestamp is at most the read timestamp.
search_pk(pk, ts) ==
    {e[2] : e \in {x \in pk2offset : x[1] = pk /\ x[2] \in DOMAIN timestamps
                                       /\ timestamps[x[2]] <= ts}}

\* The offsets of a set, in ascending order.
RECURSIVE SortedOffsets(_)
SortedOffsets(S) ==
    IF S = {} THEN << >>
    ELSE LET m == CHOOSE x \in S : \A y \in S : x <= y
         IN <<m>> \o SortedOffsets(S \ {m})

\* search_ids(id_array, timestamp): res_offsets, the offsets search_pk gives
\* for each key of id_array, key after key in the order of the array.
RECURSIVE search_ids(_, _)
search_ids(id_array, ts) ==
    IF id_array = << >> THEN << >>
    ELSE SortedOffsets(search_pk(Head(id_array), ts)) \o search_ids(Tail(id_array), ts)

\* The data types a primary key has.
DataTypes == {"INT64", "VARCHAR"}

\* The empty string, written as a key that no row carries.
EmptyString == 0

\* What a std::string holds after it was moved from: valid but unspecified;
\* the implementations leave it empty, the standard also lets it keep its text.
MovedFrom == {"empty", "unchanged"}

\* search_ids(id_array, timestamp): res_id_arr. For every offset of a key one
\* id is added: an int64 key is copied; a string key is moved out of pk at its
\* first offset, and the later offsets of that key add what the move left.
RECURSIVE search_ids_ids(_, _, _, _)
search_ids_ids(data_type, id_array, ts, moved) ==
    IF id_array = << >> THEN << >>
    ELSE LET pk == Head(id_array)
             n  == Cardinality(search_pk(pk, ts))
         IN  [k \in 1..n |-> IF data_type = "VARCHAR" /\ k > 1 /\ moved = "empty"
                             THEN EmptyString ELSE pk]
                 \o search_ids_ids(data_type, Tail(id_array), ts, moved)

\* --------------------------------------------------- DeletedRecord
\* The number of entries the deletion log takes.
MaxDeletes == 2

\* Timestamps carried by the deletions.
DeleteTs == {1, 2}

\* What Delete and LoadDeletedRecord never touch.
inserts == <<reserved, ack, acks, timestamps, row_ids, column, pk2offset, index_data,
             chunk_mutex, enable_interim, th, reservations, completed, failed, rd, disk>>

\* InsertRecord::contain(pk): the key index has an entry for pk.
contain(index, pk) == \E e \in index : e[1] = pk

\* DeletedRecord::push(pks, timestamps): appends the entries to the log.
push(log, pks, tss) == log \o [k \in 1..Len(pks) |-> <<tss[k], pks[k]>>]

\* CalcPksSize(pks) for int64 keys.
CalcPksSize(pks) == Len(pks) * 8

\* operator< of std::tuple<Timestamp, PkType>
TupleLess(a, b) == a[1] < b[1] \/ (a[1] = b[1] /\ a[2] < b[2])

\* std::sort(ordering.begin(), ordering.end())
RECURSIVE SortOrdering(_)
SortOrdering(s) ==
    IF s = << >> THEN << >>
    ELSE LET k == CHOOSE i \in 1..Len(s) : \A j \in 1..Len(s) : ~TupleLess(s[j], s[i])
         IN <<s[k]>> \o SortOrdering([i \in 1..(Len(s) - 1) |->
                                          IF i < k THEN s[i] ELSE s[i + 1]])

\* Lines 363-374: the (timestamp, pk) tuples of the call, without those whose
\* key the key index does not contain.
FilterOrdering(index, ids, tss) ==
    SelectSeq([i \in 1..Len(ids) |-> <<tss[i], ids[i]>>],
              LAMBDA record : contain(index, record[2]))

\* The tuples Delete pushes: filtered, then sorted (step 1).
DeleteOrdering(index, ids, tss) == SortOrdering(FilterOrdering(index, ids, tss))

\* Mutation: remove_if is left out, every tuple of the call is kept.
Delete_NoFilter(ids, tss) ==
    LET ordering == SortOrdering([i \in 1..Len(ids) |-> <<tss[i], ids[i]>>])
        size == Len(ordering)
    IN  /\ Len(ids) = Len(tss)
        /\ Len(deleted_record) + size <= MaxDeletes
        /\ deleted_record' = push(deleted_record, [i \in 1..size |-> ordering[i][2]],
                                  [i \in 1..size |-> ordering[i][1]])
        /\ mem_size' = mem_size + size * SizeofTimestamp + size * 8
        /\ call' = [op |-> "Delete", ids |-> ids, timestamps |-> tss, size |-> size,
                    status |-> "success"]
        /\ UNCHANGED inserts

\* Mutation: the tuples of the call replace the log in place of extending it.
Delete_Overwrites(ids, tss) ==
    LET ordering == DeleteOrdering(pk2offset, ids, tss)
        size == Len(ordering)
    IN  /\ Len(ids) = Len(tss)
        /\ Len(deleted_record) + size <= MaxDeletes
        /\ IF size = 0
           THEN UNCHANGED <<deleted_record, mem_size>>
           ELSE /\ deleted_record' = push(<< >>, [i \in 1..size |-> ordering[i][2]],
                                          [i \in 1..size |-> ordering[i][1]])
                /\ mem_size' = mem_size + size * SizeofTimestamp + size * 8
        /\ call' = [op |-> "Delete", ids |-> ids, timestamps |-> tss, size |-> size,
                    status |-> "success"]
        /\ UNCHANGED inserts

\* Delete(reserved_begin, size, ids, timestamps_raw).  The filter reads the key
\* index, which only grows, and push is the call's one write.
Delete(ids, tss) ==
    LET ordering == DeleteOrdering(pk2offset, ids, tss)
        size == Len(ordering)
        sort_pks == [i \in 1..size |-> ordering[i][2]]
        sort_timestamps == [i \in 1..size |-> ordering[i][1]]
    IN  /\ Len(ids) = Len(tss)
        /\ Len(deleted_record) + size <= MaxDeletes
        /\ IF size = 0
           THEN UNCHANGED <<deleted_record, mem_size>>
           ELSE /\ deleted_record' = push(deleted_record, sort_pks, sort_timestamps)
                /\ mem_size' = mem_size + size * SizeofTimestamp + CalcPksSize(sort_pks)
        /\ call' = [op |-> "Delete", ids |-> ids, timestamps |-> tss, size |-> size,
                    status |-> "success"]
        /\ UNCHANGED inserts

\* LoadDeletedRecord(info): the row count is asserted positive, then the keys
\* and timestamps of info are pushed as they are.
LoadDeletedRecord(pks, tss) ==
    /\ Len(pks) = Len(tss)
    /\ Len(deleted_record) + Len(pks) <= MaxDeletes
    /\ IF Len(pks) > 0
       THEN /\ deleted_record' = push(deleted_record, pks, tss)
            /\ mem_size' = mem_size + Len(pks) * SizeofTimestamp + CalcPksSize(pks)
            /\ call' = [op |-> "LoadDeletedRecord", ids |-> pks, timestamps |-> tss,
                        status |-> "success"]
       ELSE /\ UNCHANGED <<deleted_record, mem_size>>
            /\ call' = [op |-> "LoadDeletedRecord", ids |-> pks, timestamps |-> tss,
                        status |-> "raised"]
    /\ UNCHANGED inserts

\* --------------------------------------------------- inputs of the deletions
\* The batches of a call: up to MaxDeletes keys, each with a timestamp.
DeleteBatches ==
    UNION {[1..k -> PkValues \X DeleteTs] : k \in 0..MaxDeletes}

SortedByTs(log) == \A a, b \in 1..Len(log) : a < b => log[a][1] <= log[b][1]

DeleteCall ==
    \E batch \in DeleteBatches :
        Delete([i \in 1..Len(batch) |-> batch[i][1]], [i \in 1..Len(batch) |-> batch[i][2]])

\* A deleted record is loaded in the order of its timestamps, as push requires.
LoadDeletedRecordCall ==
    \E batch \in DeleteBatches :
        /\ SortedByTs([i \in 1..Len(batch) |-> <<batch[i][2], batch[i][1]>>])
        /\ LoadDeletedRecord([i \in 1..Len(batch) |-> batch[i][1]],
                             [i \in 1..Len(batch) |-> batch[i][2]])

\* --------------------------------------------------- mask_with_delete
\* get_barrier(deleted_record, timestamp): the number of log entries whose
\* timestamp is at most the read timestamp.
get_barrier(log, ts) == Cardinality({j \in 1..Len(log) : log[j][1] <= ts})

\* get_deleted_bitmap(del_barrier, ins_barrier, deleted_record, insert_record,
\* timestamp): a bitmap of length ins_barrier; bit i is set iff one of the first
\* del_barrier log entries carries the key of offset i, is not older than the
\* insert of offset i, and offset i was inserted at or before the timestamp.
get_deleted_bitmap(del_barrier, ins_barrier, log, index, tsvec, ts) ==
    [i \in 0..(ins_barrier - 1) |->
        \E j \in 1..del_barrier :
            /\ <<log[j][2], i>> \in index
            /\ i \in DOMAIN tsvec
            /\ log[j][1] >= tsvec[i]
            /\ tsvec[i] <= ts]

\* Mutation: the deletion bitmap replaces the caller's bitset.
mask_with_delete_Assigns(bitset, ins_barrier, ts, log, index, tsvec) ==
    IF get_barrier(log, ts) = 0 THEN [status |-> "ok", bitset |-> bitset]
    ELSE [status |-> "ok",
          bitset |-> get_deleted_bitmap(get_barrier(log, ts), ins_barrier, log, index, tsvec, ts)]

\* Mutation: the deletion bitmap is combined with ^= in place of |=.
mask_with_delete_Xor(bitset, ins_barrier, ts, log, index, tsvec) ==
    LET delete_bitset ==
            get_deleted_bitmap(get_barrier(log, ts), ins_barrier, log, index, tsvec, ts)
    IN  IF get_barrier(log, ts) = 0 \/ DOMAIN delete_bitset # DOMAIN bitset
        THEN [status |-> "ok", bitset |-> bitset]
        ELSE [status |-> "ok",
              bitset |-> [i \in DOMAIN bitset |-> bitset[i] # delete_bitset[i]]]

\* mask_with_delete(bitset, ins_barrier, timestamp): the bitset after the call,
\* or the failed size assertion.
mask_with_delete(bitset, ins_barrier, ts, log, index, tsvec) ==
    LET del_barrier == get_barrier(log, ts)
        delete_bitset == get_deleted_bitmap(del_barrier, ins_barrier, log, index, tsvec, ts)
    IN  IF del_barrier = 0 THEN [status |-> "ok", bitset |-> bitset]
        ELSE IF DOMAIN delete_bitset # DOMAIN bitset
             THEN [status |-> "raised", bitset |-> bitset]
             ELSE [status |-> "ok",
                   bitset |-> [i \in DOMAIN bitset |-> bitset[i] \/ delete_bitset[i]]]

\* A reader masks a filter bitset, and masks the outcome once more.
MaskWithDelete(bitset, ins_barrier, ts) ==
    LET once == mask_with_delete(bitset, ins_barrier, ts, deleted_record, pk2offset,
                                 timestamps)
        twice == mask_with_delete(once.bitset, ins_barrier, ts, deleted_record,
                                  pk2offset, timestamps)
    IN  /\ call' = [op |-> "mask_with_delete", bitset |-> bitset,
                    ins_barrier |-> ins_barrier, ts |-> ts, status |-> once.status,
                    out |-> once.bitset, again |-> twice.bitset]
        /\ UNCHANGED <<inserts, deleted_record, mem_size>>

\* The first offset of each key of id_array.
RECURSIVE FirstOffsets(_, _)
FirstOffsets(id_array, ts) ==
    IF id_array = << >> THEN << >>
    ELSE LET segOffsets == SortedOffsets(search_pk(Head(id_array), ts))
         IN  (IF segOffsets = << >> THEN << >> ELSE <<segOffsets[1]>>)
                 \o FirstOffsets(Tail(id_array), ts)

\* Mutation: the loop over segOffsets stops after the first offset of a key.
SearchIds_FirstOffset(data_type, id_array, ts, moved) ==
    /\ call' = [op |-> "search_ids", data_type |-> data_type, ids |-> id_array, ts |-> ts,
                res_ids |-> search_ids_ids(data_type, id_array, ts, moved),
                offsets |-> FirstOffsets(id_array, ts)]
    /\ UNCHANGED <<inserts, deleted_record, mem_size>>

\* A reader looks keys up.
SearchIds(data_type, id_array, ts, moved) ==
    /\ call' = [op |-> "search_ids", data_type |-> data_type, ids |-> id_array, ts |-> ts,
                res_ids |-> search_ids_ids(data_type, id_array, ts, moved),
                offsets |-> search_ids(id_array, ts)]
    /\ UNCHANGED <<inserts, deleted_record, mem_size>>

\* --------------------------------------------------- inputs of the readers
\* Read timestamps: before every insert, and the timestamps in use; no insert
\* and no deletion is later than the last of them.
ReadTs == {0, 1, 2}

\* The filter bitsets of length n a reader brings: clear, full, every other bit.
Bitsets(n) == {[i \in 0..(n - 1) |-> FALSE], [i \in 0..(n - 1) |-> TRUE],
               [i \in 0..(n - 1) |-> i % 2 = 0]}

\* ins_barrier is a count of visible rows, at most the ack barrier.
MaskWithDeleteCall ==
    \E ins_barrier \in 0..ack, ts \in ReadTs : \E bitset \in Bitsets(ins_barrier) :
        MaskWithDelete(bitset, ins_barrier, ts)

IdArrays == UNION {[1..k -> PkValues] : k \in 0..2}

SearchIdsCall ==
    \E data_type \in DataTypes, id_array \in IdArrays, ts \in ReadTs :
        \E moved \in IF data_type = "VARCHAR" THEN MovedFrom ELSE {"unchanged"} :
            SearchIds(data_type, id_array, ts, moved)

\* --------------------------------------------------- one writer, deletions, readers
Writer == "t1"

\* Insert with a batch that passes its checks.
ValidInsertCall(t) == \E rows \in RowSeqs(th[t].n) : Insert(t, rows, th[t].n, SchemaFields)

\* The steps of PreInsert and Insert of the writer.
InsertStep(t) ==
    \/ PreInsertCall(t)
    \/ ValidInsertCall(t)
    \/ InsertSystemColumns(t)
    \/ FieldScalar(t)
    \/ FieldCheck(t)
    \/ FieldWrite(t)
    \/ FieldIndex(t)
    \/ FieldRemove(t)
    \/ InsertPk(t)
    \/ Commit(t)

\* The interim index plays no part in deletions, masks and lookups.
DeleteInit == Init /\ enable_interim = FALSE

DeleteNext ==
    \/ InsertStep(Writer)
    \/ DeleteCall
    \/ LoadDeletedRecordCall

\* One thread inserts while deletions are applied and loaded.
DeleteSpec == DeleteInit /\ [][DeleteNext]_vars

MaskNext ==
    \/ InsertStep(Writer)
    \/ DeleteCall
    \/ LoadDeletedRecordCall
    \/ MaskWithDeleteCall

\* The same, with readers that mask their filter bitsets.
MaskSpec == DeleteInit /\ [][MaskNext]_vars

SearchNext ==
    \/ InsertStep(Writer)
    \/ DeleteCall
    \/ SearchIdsCall

\* One thread inserts, deletions are applied and readers look keys up.
SearchSpec == DeleteInit /\ [][SearchNext]_vars

\* --------------------------------------------------- bulk_subscript
INVALID_SEG_OFFSET == -1

\* A slot of the output filled with zero bytes.
ZeroSlot(f) == IF f = PrimaryField THEN 0 ELSE <<0, 0>>

\* Bytes that are neither zero nor the payload of any row.
StaleSlot(f) == IF f = PrimaryField THEN 0 - 1 ELSE <<0 - 1, 0 - 1>>

\* What a read outside the live chunks of a column can leave in a slot: the
\* behaviour is undefined, the bytes may be zero or anything else.
UndefinedSlots(f) == {ZeroSlot(f), StaleSlot(f)}

\* vec[offset] / vec.get_element(offset) of a ConcurrentVector.
ChunkElement(f, col, offset) ==
    IF offset \in DOMAIN col THEN {col[offset]} ELSE UndefinedSlots(f)

\* The outputs whose slot i is one of slots[i].
Outputs(slots) ==
    {out \in [DOMAIN slots -> UNION {slots[i] : i \in DOMAIN slots}] :
        \A i \in DOMAIN slots : out[i] \in slots[i]}

\* copy_from_chunk of the vector bulk_subscript_impl: memset for
\* INVALID_SEG_OFFSET, memcpy of get_element(offset) otherwise.
copy_from_chunk(f, col, seg_offsets) ==
    Outputs([i \in DOMAIN seg_offsets |->
                IF seg_offsets[i] = INVALID_SEG_OFFSET THEN {ZeroSlot(f)}
                ELSE ChunkElement(f, col, seg_offsets[i])])

\* The offsets copy_from_chunk reads the column at.
copy_from_chunk_indexed(seg_offsets) == Range(seg_offsets) \ {INVALID_SEG_OFFSET}

\* The scalar bulk_subscript_impl: output[i] = vec[offset], for every offset.
bulk_subscript_impl(f, col, seg_offsets) ==
    Outputs([i \in DOMAIN seg_offsets |-> ChunkElement(f, col, seg_offsets[i])])

\* IndexingRecord::GetDataFromIndex: the vectors the interim index holds, a
\* zero slot for INVALID_SEG_OFFSET.
GetDataFromIndex(f, idx, seg_offsets) ==
    Outputs([i \in DOMAIN seg_offsets |->
                IF seg_offsets[i] = INVALID_SEG_OFFSET THEN {ZeroSlot(f)}
                ELSE ChunkElement(f, idx, seg_offsets[i])])

\* bulk_subscript(field_id, seg_offsets, count) up to the lock of the vector
\* path.  A scalar field is read in place.  A vector field is served by the
\* index when SyncDataWithIndex holds; otherwise the reader goes on to take
\* chunk_mutex_.
BulkSubscript(r, f, seg_offsets) ==
    /\ rd[r].pc \in {"idle", "done"}
    /\ IF ShouldIndex(f)
       THEN IF SyncDataWithIndex(f, index_data)
            THEN \E out \in GetDataFromIndex(f, index_data, seg_offsets) :
                    rd' = [rd EXCEPT ![r] = [pc |-> "done", field |-> f,
                               seg_offsets |-> seg_offsets, from |-> "index",
                               out |-> out, indexed |-> {}]]
            ELSE rd' = [rd EXCEPT ![r] = [pc |-> "lock", field |-> f,
                            seg_offsets |-> seg_offsets, from |-> "chunk",
                            out |-> << >>, indexed |-> {}]]
       ELSE \E out \in bulk_subscript_impl(f, column[f], seg_offsets) :
               rd' = [rd EXCEPT ![r] = [pc |-> "done", field |-> f,
                          seg_offsets |-> seg_offsets, from |-> "scalar",
                          out |-> out, indexed |-> Range(seg_offsets)]]
    /\ UNCHANGED <<reserved, ack, acks, segment, chunk_mutex, enable_interim, th,
                   reservations, completed, failed, deleted_record, call, disk>>

\* std::lock_guard<std::shared_mutex> guard(chunk_mutex_): lock(), which waits
\* until no one holds the mutex.
LockChunks(r) ==
    /\ rd[r].pc = "lock"
    /\ chunk_mutex = "free"
    /\ chunk_mutex' = r
    /\ rd' = [rd EXCEPT ![r].pc = "copy"]
    /\ UNCHANGED <<reserved, ack, acks, segment, enable_interim, th,
                   reservations, completed, failed, deleted_record, call, disk>>

\* copy_from_chunk() under the guard, and the release of the guard.
CopyFromChunk(r) ==
    /\ rd[r].pc = "copy"
    /\ \E out \in copy_from_chunk(rd[r].field, column[rd[r].field], rd[r].seg_offsets) :
          rd' = [rd EXCEPT ![r] = [@ EXCEPT !.pc = "done", !.out = out,
                     !.indexed = copy_from_chunk_indexed(rd[r].seg_offsets)]]
    /\ chunk_mutex' = "free"
    /\ UNCHANGED <<reserved, ack, acks, segment, enable_interim, th,
                   reservations, completed, failed, deleted_record, call, disk>>

\* --------------------------------------------------- inputs of bulk_subscript
\* The offsets of a committed batch, in order.
BatchOffsets(b) == [k \in 1..b[2] |-> b[1] + k - 1]

\* The offsets a reader asks for: those of a committed batch, with or without
\* an invalid offset behind them, or an invalid offset alone.
ReadOffsets ==
    {<<INVALID_SEG_OFFSET>>}
        \cup {BatchOffsets(b) : b \in completed}
        \cup {BatchOffsets(b) \o <<INVALID_SEG_OFFSET>> : b \in completed}

BulkSubscriptCall(r) ==
    \E f \in Range(SchemaFields), seg_offsets \in ReadOffsets :
        BulkSubscript(r, f, seg_offsets)

ReadNext ==
    \/ InsertStep(Writer)
    \/ \E r \in Readers :
          \/ BulkSubscriptCall(r)
          \/ LockChunks(r)
          \/ CopyFromChunk(r)

\* One thread inserts while two readers fetch rows.
ReadSpec == Init /\ [][ReadNext]_vars

\* The steps of an Insert that is under way.
WriterProgress ==
    \/ ValidInsertCall(Writer)
    \/ InsertSystemColumns(Writer)
    \/ FieldScalar(Writer)
    \/ FieldCheck(Writer)
    \/ FieldWrite(Writer)
    \/ FieldIndex(Writer)
    \/ FieldRemove(Writer)
    \/ InsertPk(Writer)
    \/ Commit(Writer)

Reader == "r1"

OneReaderNext ==
    \/ InsertStep(Writer)
    \/ BulkSubscriptCall(Reader)
    \/ LockChunks(Reader)
    \/ CopyFromChunk(Reader)

\* One thread inserts while one reader fetches rows.  The writer's thread keeps
\* running; nothing is assumed about the reader, which may stay inside the
\* guarded section for as long as it likes.
ReadFairSpec == Init /\ [][OneReaderNext]_vars /\ WF_vars(WriterProgress)

\* --------------------------------------------------- unsigned integers
\* An unsigned integer is the sequence of its bytes, the low byte first, as
\* the staged file holds it.  Byte j (from 0) of x:
Digit(x, j) == IF j + 1 <= Len(x) THEN x[j + 1] ELSE 0

\* The k low bytes of the natural number n.
RECURSIVE ToBytes(_, _)
ToBytes(n, k) == IF k = 0 THEN << >> ELSE <<n % 256>> \o ToBytes(n \div 256, k - 1)

RECURSIVE ColumnSum(_, _, _, _)
ColumnSum(a, b, pos, j) ==
    IF j > pos THEN 0
    ELSE Digit(a, j) * Digit(b, pos - j) + ColumnSum(a, b, pos, j + 1)

RECURSIVE MulFrom(_, _, _, _, _)
MulFrom(a, b, pos, k, carry) ==
    IF pos = k THEN << >>
    ELSE LET t == ColumnSum(a, b, pos, 0) + carry
         IN  <<t % 256>> \o MulFrom(a, b, pos + 1, k, t \div 256)

\* a * b in an unsigned type of k bytes: the product modulo 2^(8k).
Mul(a, b, k) == MulFrom(a, b, 0, k, 0)

\* --------------------------------------------------- VectorDiskAnnIndex
kSearchListMaxValue1 == 200
kSearchListMaxValue2 == 65535

\* sizeof(T) of VectorDiskAnnIndex<float>, sizeof(uint32_t), sizeof(size_t)
SizeofT == 4
SizeofU32 == 4
SizeofSizeT == 8

\* Engine calls (Build, Deserialize) one instance may make.
MaxEngineCalls == 2

\* A call returned or raised.
Returned(i, op, stat, error) == [op |-> op, inst |-> i, status |-> stat, error |-> error]

\* local_chunk_manager->RemoveDir(GetSegmentRawDataPathPrefix(segment_id)):
\* everything under the raw-data prefix of the segment goes.
RemoveSegmentRawData(fs, seg) ==
    [path \in {q \in DOMAIN fs : ~UnderSegmentRawData(q, seg)} |-> fs[path]]

\* A file written at path, created if it is not there.
WriteFile(fs, path, content) ==
    [q \in (DOMAIN fs) \cup {path} |-> IF q = path THEN content ELSE fs[q]]

\* DiskFileManagerImpl::CacheRawDataToDisk: the raw vectors of the field are
\* staged under the raw-data prefix of (segment, field).
CacheRawDataToDisk(fs, i) == WriteFile(fs, RawDataPath(i), [kind |-> "binlog"])

\* DiskFileManagerImpl::CacheIndexToDisk: the index files land under the
\* local index prefix.
CacheIndexToDisk(fs, i) == WriteFile(fs, IndexPrefix(i), [kind |-> "index"])

\* auto data_size = num * dim * sizeof(T): num * dim is a product of two
\* uint32_t, taken in 32 bits, and only then widened to size_t.
DataSize(num, dim) ==
    Mul(Mul(num, dim, SizeofU32), ToBytes(SizeofT, SizeofSizeT), SizeofSizeT)

\* The file BuildWithDataset stages: num, dim, and a body of data_size bytes.
StagedDataset(dataset) ==
    LET num == ToBytes(dataset.rows, SizeofU32)
        dim == ToBytes(dataset.dim, SizeofU32)
    IN  [kind |-> "dataset", num |-> num, dim |-> dim, body_bytes |-> DataSize(num, dim)]

\* A build goes on to the engine.
ToEngine(i, op, dataset) ==
    inst' = [inst EXCEPT ![i] = [@ EXCEPT !.pc = "engine", !.op = op, !.dataset = dataset]]

CanCall(i) == inst[i].pc = "idle" /\ Len(inst[i].ran) < MaxEngineCalls

\* Build(config) up to index_.Build
Build(i, config) ==
    /\ CanCall(i)
    /\ IF ~config.files
       THEN /\ dcall' = Returned(i, "Build", "none", "AssertionError")
            /\ UNCHANGED <<local_fs, inst>>
       ELSE /\ local_fs' = CacheRawDataToDisk(local_fs, i)
            /\ IF ~config.thread_num
               THEN /\ dcall' = Returned(i, "Build", "none", "AssertionError")
                    /\ UNCHANGED inst
               ELSE /\ ToEngine(i, "Build", NoDataset)
                    /\ UNCHANGED dcall
    /\ UNCHANGED segcore

\* BuildV2(config) up to index_.Build
BuildV2(i, config) ==
    /\ CanCall(i)
    /\ local_fs' = CacheRawDataToDisk(local_fs, i)
    /\ IF ~config.thread_num
       THEN /\ dcall' = Returned(i, "BuildV2", "none", "AssertionError")
            /\ UNCHANGED inst
       ELSE /\ ToEngine(i, "BuildV2", NoDataset)
            /\ UNCHANGED dcall
    /\ UNCHANGED segcore

\* BuildWithDataset(dataset, config) up to index_.Build
BuildWithDataset(i, dataset, config) ==
    /\ CanCall(i)
    /\ IF ~config.thread_num
       THEN /\ dcall' = Returned(i, "BuildWithDataset", "none", "AssertionError")
            /\ UNCHANGED <<local_fs, inst>>
       ELSE /\ local_fs' = WriteFile(local_fs, RawDataPath(i), StagedDataset(dataset))
            /\ ToEngine(i, "BuildWithDataset", dataset)
            /\ UNCHANGED dcall
    /\ UNCHANGED segcore

\* index_.Build({}, build_config) and what follows it.  BuildV2 drops the
\* status; Build and BuildWithDataset raise on a status other than success.
EngineBuild(i, stat) ==
    /\ inst[i].pc = "engine"
    /\ IF inst[i].op # "BuildV2" /\ stat # "success"
       THEN /\ dcall' = Returned(i, inst[i].op, stat, "IndexBuildError")
            /\ UNCHANGED local_fs
       ELSE /\ dcall' = Returned(i, inst[i].op, stat, "none")
            /\ local_fs' = RemoveSegmentRawData(local_fs, SegmentOf(i))
    /\ inst' = [inst EXCEPT ![i] = [NoBuild EXCEPT !.ran = Append(inst[i].ran, inst[i].op)]]
    /\ UNCHANGED segcore

\* Load(ctx, config) and LoadV2(config): update_load_json, the index files
\* cached to disk (Load asserts that the config names them), Deserialize.
LoadIndex(i, op, config, stat) ==
    /\ CanCall(i)
    /\ IF ~config.thread_num \/ (op = "Load" /\ ~config.files)
       THEN /\ dcall' = Returned(i, op, "none", "AssertionError")
            /\ UNCHANGED <<local_fs, inst>>
       ELSE /\ local_fs' = CacheIndexToDisk(local_fs, i)
            /\ dcall' = Returned(i, op, stat,
                                 IF stat = "success" THEN "none" ELSE "UnexpectedError")
            /\ inst' = [inst EXCEPT ![i].ran = Append(@, op)]
    /\ UNCHANGED segcore

Load(i, config, stat) == LoadIndex(i, "Load", config, stat)

LoadV2(i, config, stat) == LoadIndex(i, "LoadV2", config, stat)

\* The search config Query hands to the engine: topk, and the search-list size
\* when the caller's search params carry a query list.
SearchConfig(topk, search_params) ==
    [topk |-> topk,
     has_search_list_size |-> search_params.has_query_list,
     search_list_size |-> IF search_params.has_query_list THEN search_params.query_list
                          ELSE 0]

\* Query(dataset, search_info, bitset, search_result) on a DISKANN index
Query(i, topk, search_params, stat) ==
    /\ inst[i].pc = "idle"
    /\ dcall' = [op |-> "Query", inst |-> i, status |-> stat,
                 error |-> IF stat = "success" THEN "none" ELSE "UnexpectedError",
                 search_config |-> SearchConfig(topk, search_params)]
    /\ UNCHANGED <<segcore, local_fs, inst>>

\* --------------------------------------------------- inputs of the disk index
EngineStatus == {"success", "failure"}

\* What a config carries: the insert or index files, the thread number.
Configs == [files : BOOLEAN, thread_num : BOOLEAN]

\* Datasets of 65536 rows: of dimension 4, and of dimension 65536.
Datasets == {[rows |-> 65536, dim |-> d] : d \in {4, 65536}}

TopKs == {20, 21}

SearchParams ==
    {[has_query_list |-> FALSE, query_list |-> 0]}
        \cup {[has_query_list |-> TRUE, query_list |-> q] :
                 q \in {kSearchListMaxValue1, kSearchListMaxValue1 + 1,
                        kSearchListMaxValue2, kSearchListMaxValue2 + 1}}

DiskInit == Init /\ enable_interim = FALSE

DiskNext ==
    \E i \in Instances :
        \/ \E config \in Configs : Build(i, config)
        \/ \E config \in Configs : BuildV2(i, config)
        \/ \E config \in Configs, dataset \in Datasets : BuildWithDataset(i, dataset, config)
        \/ \E stat \in EngineStatus : EngineBuild(i, stat)
        \/ \E config \in Configs, stat \in EngineStatus : Load(i, config, stat)
        \/ \E config \in Configs, stat \in EngineStatus : LoadV2(i, config, stat)

\* Two disk indexes of one segment are built and loaded.
DiskSpec == DiskInit /\ [][DiskNext]_vars

QueryNext ==
    \E i \in Instances :
        \/ \E config \in Configs, stat \in EngineStatus : Load(i, config, stat)
        \/ \E config \in Configs, stat \in EngineStatus : LoadV2(i, config, stat)
        \/ \E topk \in TopKs, search_params \in SearchParams, stat \in EngineStatus :
              Query(i, topk, search_params, stat)

\* Two disk indexes are loaded and queried.
QuerySpec == DiskInit /\ [][QueryNext]_vars

\* --------------------------------------------------- chunks
\* segcore_config_.get_chunk_rows(): the rows of a chunk.
ChunkRows == 2

upper_div(x, y) == (x + y - 1) \div y

\* num_chunk(): the chunks the acked rows span.
num_chunk == upper_div(ack, ChunkRows)

\* The offsets of chunk chunk_id.
ChunkOffsets(chunk_id) == Interval(chunk_id * ChunkRows, ChunkRows)

\* get_span_base(chunk_id): the view over the chunk, as the rows the column
\* holds of it; a column that was cleared, or never written at the chunk, owns
\* no such chunk and the view refers to nothing of the column.
get_span_base(col, chunk_id) ==
    [present |-> ChunkOffsets(chunk_id) \cap DOMAIN col # {},
     rows    |-> [o \in ChunkOffsets(chunk_id) \cap DOMAIN col |-> col[o]]]

\* chunk_data_impl(field_id, chunk_id)
chunk_data_impl(f, chunk_id) == get_span_base(column[f], chunk_id)

\* A reader takes the view over a chunk below num_chunk().
ChunkData(f, chunk_id) ==
    /\ call' = [op |-> "chunk_data", field |-> f, chunk_id |-> chunk_id,
                num_chunk |-> num_chunk, span |-> chunk_data_impl(f, chunk_id)]
    /\ UNCHANGED <<inserts, deleted_record, mem_size>>

ChunkDataCall ==
    \E f \in Range(SchemaFields), chunk_id \in 0..(num_chunk - 1) : ChunkData(f, chunk_id)

ChunkNext ==
    \/ InsertStep(Writer)
    \/ ChunkDataCall

\* One thread inserts, with or without the interim index, and readers take
\* chunk views.
ChunkSpec == Init /\ [][ChunkNext]_vars

\* --------------------------------------------------- get_active_count
\* std::upper_bound over the counting range [first, first + len) with the
\* comparison ts < ts_vec[index]: bisection, halving len at every step.
RECURSIVE upper_bound(_, _, _, _)
upper_bound(first, len, ts, ts_vec) ==
    IF len <= 0 THEN first
    ELSE LET half == len \div 2
             mid  == first + half
         IN  IF ts < ts_vec[mid]
             THEN upper_bound(first, half, ts, ts_vec)
             ELSE upper_bound(mid + 1, len - half - 1, ts, ts_vec)

\* get_row_count(): the ack barrier.
get_row_count == ack

\* get_active_count(ts): the position upper_bound ends at in [0, row_count).
get_active_count(ts) == upper_bound(0, get_row_count, ts, timestamps)

\* A reader asks for the number of rows visible at ts.
GetActiveCount(ts) ==
    /\ call' = [op |-> "get_active_count", ts |-> ts, count |-> get_active_count(ts)]
    /\ UNCHANGED <<inserts, deleted_record, mem_size>>

GetActiveCountCall == \E ts \in ReadTs : GetActiveCount(ts)

CountNext ==
    \/ InsertStep(Writer)
    \/ GetActiveCountCall

\* One thread inserts batches, each with its timestamps in order, and readers
\* ask for the active count.
CountSpec == DeleteInit /\ [][CountNext]_vars

\* --------------------------------------------------- loads on any schema
\* A load of field data into a segment of the given schema: the assertions,
\* and after them the fields that hold the loaded rows at the commit.
LoadOnSchema(op, schema, infos, num_rows) ==
    /\ call' = [op |-> op, schema |-> schema, infos |-> infos, num_rows |-> num_rows,
                status |-> IF LoadAsserts(op, schema, infos) THEN "committed" ELSE "raised",
                loaded |-> IF LoadAsserts(op, schema, infos)
                           THEN LoadedFields(schema, infos) ELSE {}]
    /\ UNCHANGED <<inserts, deleted_record, mem_size>>

\* Schemas: the key alone, or with one or two more user fields.
Schemas == {{PrimaryField} \cup more : more \in SUBSET {"vec", "tag"}}

LoadOps == {"LoadFieldData", "LoadFieldDataV2"}

\* The field_infos name system fields and fields of the schema.
LoadOnSchemaCall ==
    \E op \in LoadOps, schema \in Schemas, num_rows \in 1..MaxRows :
        \E infos \in SUBSET (SystemFields \cup schema) :
            LoadOnSchema(op, schema, infos, num_rows)

\* Loads are offered to segments of every schema.
LoadCheckSpec == DeleteInit /\ [][LoadOnSchemaCall]_vars

\* --------------------------------------------------- properties
MaxReserved == MaxRows * MaxCalls
Offsets == 0..MaxReserved

RECURSIVE SumSizes(_, _)
\* The sum of the sizes of the first k reservations.
SumSizes(res, k) == IF k = 0 THEN 0 ELSE SumSizes(res, k - 1) + res[k][2]

\* The offsets of a set of intervals <<begin, size>>.
Covered(intervals) == UNION {Interval(x[1], x[2]) : x \in intervals}

\* The length of the longest prefix [0, x) inside a set of offsets.
LongestPrefix(S) == CHOOSE x \in 0..Cardinality(S) : Interval(0, x) \subseteq S /\ x \notin S

\* C1: every PreInsert returns the cursor as it was before its own advance, so
\* the k-th reservation starts at the sum of the sizes reserved before it; the
\* reserved intervals are pairwise disjoint and their union is [0, sum of the
\* sizes) without a gap; a thread holds the interval it was handed.
C1_PreInsertLinearizable ==
    LET iv(k) == Interval(reservations[k][1], reservations[k][2])
        N == Len(reservations)
    IN  /\ \A k \in 1..N : reservations[k][1] = SumSizes(reservations, k - 1)
        /\ \A j, k \in 1..N : j # k => iv(j) \cap iv(k) = {}
        /\ UNION {iv(k) : k \in 1..N} = Interval(0, SumSizes(reservations, N))
        /\ reserved = SumSizes(reservations, N)
        /\ \A t \in Threads : th[t].pc \notin {"idle", "raised"} =>
               \E k \in 1..N : reservations[k] = <<th[t].begin, th[t].n>>

\* Two threads hold non-empty reservations at the same time.
C1_Witness ==
    /\ Len(reservations) = 2
    /\ \A t \in Threads : th[t].pc = "reserved" /\ th[t].n > 0

\* C2: the reservation cursor is never below the ack barrier.
C2_ReservedAtLeastAck == reserved >= ack

\* A load is under way above a committed prefix.
C2_Witness ==
    /\ ack > 0
    /\ reserved > ack
    /\ \E t \in Threads : th[t].op = "Load" /\ th[t].pc = "write"

C4_ChunksOrIndex ==
    [][ /\ \A f \in Range(SchemaFields) : \A o \in Interval(0, ack') :
              \/ o \in DOMAIN column'[f]
              \/ (ShouldIndex(f) /\ SyncWatermark(index_data') > o)
        /\ \A f \in Range(SchemaFields) : \A o \in (DOMAIN column[f]) \ (DOMAIN column'[f]) :
              /\ SyncDataWithIndex(f, index_data)
              /\ o < SyncWatermark(index_data) ]_vars

\* C5 as stated, for the non-empty batches: once Insert(begin, n) has returned,
\* ack >= begin + n.
C5_AckCoversReturnedInsert == \A x \in completed : x[2] >= 1 => ack >= x[1] + x[2]

\* C5 amended: once Insert(begin, n) has returned its interval is committed;
\* ack >= begin + n, and a read at the largest timestamp of the batch finds
\* every row of it, as soon as every offset below begin is committed as well.
C5_ReturnedInsertCommitted ==
    \A x \in completed :
        /\ Interval(x[1], x[2]) \subseteq acks
        /\ Interval(0, x[1]) \subseteq Covered(completed) =>
              /\ ack >= x[1] + x[2]
              /\ \A o \in Interval(x[1], x[2]) :
                    \E m \in Interval(x[1], x[2]) :
                        /\ \A o2 \in Interval(x[1], x[2]) : timestamps[o2] <= timestamps[m]
                        /\ o \in Range(search_ids(<<column[PrimaryField][o]>>, timestamps[m]))

\* An interval that does not start at 0 has been committed and lies in the prefix.
C5_Witness == \E x \in completed : x[1] > 0 /\ x[2] > 1 /\ ack >= x[1] + x[2]

\* C6: the ack barrier is the length of the longest prefix covered by the
\* intervals committed so far, and no step lowers it.
C6_AckIsLongestPrefix ==
    /\ ack = LongestPrefix(Covered(completed))
    /\ [][ack' >= ack /\ ack' = LongestPrefix(Covered(completed'))]_vars

\* An interval was committed ahead of the one below it.
C6_Witness == ack = 0 /\ acks # {} /\ completed # {}

\* C7: if no Insert fails, every reserved offset is eventually below the ack
\* barrier, so ack equals reserved again and again.
C7_AckReachesReserved ==
    [](failed = {}) =>
        /\ \A x \in Offsets : (reserved >= x) ~> (ack >= x)
        /\ []<>(ack = reserved)

\* Two batches are committed and ack has caught up with reserved.
C7_Witness ==
    /\ failed = {}
    /\ Cardinality(completed) = 2
    /\ reserved >= 3
    /\ ack = reserved

\* C8: a call of Insert whose data has another number of rows, or names a
\* field twice, raises, and the step changes neither the columns, the key
\* index, the mem size nor the ack barrier.
C8_InvalidInsertRaisesEarly ==
    [][\A t \in Threads :
          ( /\ th[t].pc = "reserved"
            /\ th'[t].pc # "reserved"
            /\ \/ th'[t].data_num_rows # th[t].n
               \/ HasDuplicate(th'[t].fields) )
          => /\ th'[t].pc = "raised"
             /\ <<th[t].begin, th[t].n>> \in failed'
             /\ UNCHANGED <<timestamps, row_ids, column, pk2offset, index_data,
                            mem_size, ack, acks>> ]_vars

\* An Insert on a non-empty reservation has raised for one of the two causes
\* while the segment holds committed rows.
C8_Witness ==
    /\ ack > 0
    /\ \E t \in Threads : /\ th[t].pc = "raised" /\ th[t].op = "Insert" /\ th[t].n > 0
                          /\ \/ th[t].data_num_rows # th[t].n
                             \/ HasDuplicate(th[t].fields)

\* C9: a failed Insert has written nothing at the offsets of its reservation.
C9_FailedInsertLeavesNothing ==
    \A x \in failed : \A o \in Interval(x[1], x[2]) :
        /\ o \notin DOMAIN timestamps
        /\ o \notin DOMAIN row_ids
        /\ \A f \in Range(SchemaFields) : o \notin DOMAIN column[f]
        /\ \A e \in pk2offset : e[2] # o

Count(seq, e) == Cardinality({i \in 1..Len(seq) : seq[i] = e})

\* What a step added at the end of the deletion log.
Appended(before, after) == SubSeq(after, Len(before) + 1, Len(after))

\* C11: a call of Delete appends to the deletion log exactly those of its
\* (pk, ts) entries whose key the key index holds at the call, each as often as
\* the call carries it, and returns success; when no key of the call is in the
\* index the log and mem_size stay as they were.
C11_DeleteAppendsPresentKeys ==
    [][(call'.op = "Delete" /\ UNCHANGED inserts) =>
         LET input == [i \in 1..Len(call'.ids) |-> <<call'.timestamps[i], call'.ids[i]>>]
             present(pk) == \E o \in Offsets : <<pk, o>> \in pk2offset
             added == Appended(deleted_record, deleted_record')
         IN  /\ call'.status = "success"
             /\ Len(deleted_record') >= Len(deleted_record)
             /\ SubSeq(deleted_record', 1, Len(deleted_record)) = deleted_record
             /\ \A e \in DeleteTs \X PkValues :
                    Count(added, e) = IF present(e[2]) THEN Count(input, e) ELSE 0
             /\ (\A i \in 1..Len(input) : ~present(input[i][2])) =>
                    UNCHANGED <<deleted_record, mem_size>>]_vars

\* A Delete of two keys has found one of them in the key index, appended it
\* and dropped the other.
C11_Witness ==
    /\ call.op = "Delete"
    /\ Len(call.ids) = 2
    /\ call.size = 1
    /\ \E i \in 1..2 : deleted_record[Len(deleted_record)] = <<call.timestamps[i], call.ids[i]>>

\* C12: every entry of the deletion log carries a key that the key index holds,
\* whether it came in through Delete or through LoadDeletedRecord.
C12_DeletedKeysInIndex ==
    \A j \in 1..Len(deleted_record) : \E e \in pk2offset : e[1] = deleted_record[j][2]

\* C13: the deletion log is ordered by non-decreasing timestamp after any
\* calls of Delete and LoadDeletedRecord.
C13_LogSortedByTimestamp ==
    \A a, b \in 1..Len(deleted_record) : a < b => deleted_record[a][1] <= deleted_record[b][1]

\* --------------------------------------------------- mask_with_delete
\* The step is a call of mask_with_delete.
MaskStep == call'.op = "mask_with_delete" /\ call' # call

\* Offset i is deleted for a read at ts: the log holds an entry for the key of
\* offset i, with a timestamp at most ts and not older than the insert of
\* offset i, and offset i was inserted at or before ts.
DeletedAt(i, ts) ==
    \E j \in 1..Len(deleted_record) :
        /\ deleted_record[j][1] <= ts
        /\ deleted_record[j][2] = column[PrimaryField][i]
        /\ deleted_record[j][1] >= timestamps[i]
        /\ timestamps[i] <= ts

\* C14: mask_with_delete applied to an all-zero bitset of length ins_barrier
\* sets bit i if and only if offset i is deleted for a read at ts.
C14_MaskIsDeletionsUpToTs ==
    [][(MaskStep /\ \A i \in DOMAIN call'.bitset : ~call'.bitset[i]) =>
         /\ call'.status = "ok"
         /\ \A i \in 0..(call'.ins_barrier - 1) :
               call'.out[i] <=> DeletedAt(i, call'.ts)]_vars

\* C15: for fixed (ins_barrier, ts) and an unchanged segment, masking the
\* outcome of mask_with_delete once more gives that outcome again.
C15_MaskIdempotent == call.op = "mask_with_delete" => call.again = call.out

\* The first application added a bit, the second changed nothing.
C15_Witness ==
    /\ call.op = "mask_with_delete"
    /\ call.again = call.out
    /\ \A i \in DOMAIN call.bitset : ~call.bitset[i]
    /\ \E i \in DOMAIN call.out : call.out[i]

\* C16: mask_with_delete keeps the length of the caller's bitset and every bit
\* that was set on entry, and leaves the bitset as it was when the log has no
\* entry with a timestamp at most ts.
C16_MaskOnlyAddsBits ==
    [][MaskStep =>
         /\ DOMAIN call'.out = DOMAIN call'.bitset
         /\ \A i \in DOMAIN call'.bitset : call'.bitset[i] => call'.out[i]
         /\ (\A j \in 1..Len(deleted_record) : deleted_record[j][1] > call'.ts) =>
                call'.out = call'.bitset]_vars

\* A bitset with one bit set and one clear came back with both set.
C16_Witness ==
    /\ call.op = "mask_with_delete"
    /\ \E i, k \in DOMAIN call.bitset :
          /\ call.bitset[i] /\ call.out[i]
          /\ ~call.bitset[k] /\ call.out[k]

\* The offsets mask_with_delete marks in a clear bitset of length ins_barrier.
Masked(ins_barrier, ts, log, index, tsvec) ==
    {i \in 0..(ins_barrier - 1) :
        mask_with_delete([k \in 0..(ins_barrier - 1) |-> FALSE], ins_barrier, ts,
                         log, index, tsvec).bitset[i]}

\* C17: for fixed ts and ins_barrier, no step of an insert, of Delete or of
\* LoadDeletedRecord takes an offset out of what mask_with_delete marks: a
\* later call marks a superset of what an earlier call marked.
C17_MaskedOnlyGrows ==
    [][\A ts \in ReadTs, ins_barrier \in 0..ack :
          Masked(ins_barrier, ts, deleted_record, pk2offset, timestamps) \subseteq
          Masked(ins_barrier, ts, deleted_record', pk2offset', timestamps')]_vars

\* A call marked an offset that the log as it was one entry earlier did not
\* mark.
C17_Witness ==
    /\ call.op = "mask_with_delete"
    /\ Len(deleted_record) = 2
    /\ \E i \in DOMAIN call.out :
          /\ call.out[i] /\ ~call.bitset[i]
          /\ i \notin Masked(call.ins_barrier, call.ts, SubSeq(deleted_record, 1, 1),
                             pk2offset, timestamps)

\* --------------------------------------------------- search_ids
\* The step is a call of search_ids.
SearchStep == call'.op = "search_ids" /\ call' # call

\* C18: search_ids returns an offset only if the row at it carries a key of
\* id_array and a timestamp at most ts, and then once for each occurrence of
\* that key in id_array; every committed row with such a key and timestamp is
\* returned, rows that share a key included.
C18_SearchIdsReturnsInsertedOffsets ==
    [][SearchStep =>
         \A o \in Offsets :
             LET n == Count(call'.offsets, o)
                 key == column[PrimaryField][o]
             IN  /\ n > 0 => /\ o \in DOMAIN column[PrimaryField]
                             /\ o \in DOMAIN timestamps
                             /\ timestamps[o] <= call'.ts
                             /\ n = Count(call'.ids, key)
                 /\ (o < ack /\ timestamps[o] <= call'.ts) => n = Count(call'.ids, key)]_vars

\* A key that two committed rows share was looked up, and both offsets came
\* back.
C18_Witness ==
    /\ call.op = "search_ids"
    /\ Len(call.ids) = 1
    /\ Len(call.offsets) = 2
    /\ call.offsets[1] # call.offsets[2]
    /\ \A k \in 1..2 : call.offsets[k] < ack

\* C19: once Delete has logged (pk, t_d) for a committed row with key pk and
\* insert timestamp t_i <= t_d, search_ids([pk], ts) leaves the row's offset out
\* for ts >= t_d and returns it for t_i <= ts < t_d.
C19_SearchIdsHidesDeletedRows ==
    [][(SearchStep /\ Len(call'.ids) = 1) =>
         \A o \in 0..(ack - 1) :
             LET t_d == {deleted_record[j][1] : j \in
                            {x \in 1..Len(deleted_record) :
                                /\ deleted_record[x][2] = column[PrimaryField][o]
                                /\ deleted_record[x][1] >= timestamps[o]}}
             IN  (call'.ids[1] = column[PrimaryField][o] /\ t_d # {}) =>
                    /\ (\E t \in t_d : call'.ts >= t) => o \notin Range(call'.offsets)
                    /\ (timestamps[o] <= call'.ts /\ \A t \in t_d : call'.ts < t) =>
                           o \in Range(call'.offsets)]_vars

\* C20: every offset search_ids returns is below the ack barrier at the call.
C20_SearchIdsBelowAck ==
    [][SearchStep => \A k \in 1..Len(call'.offsets) : call'.offsets[k] < ack]_vars

\* --------------------------------------------------- bulk_subscript
\* The payload Insert was handed for field f of the row at offset o: the key
\* is kept in the row-id column, the vector is made of key and timestamp.
Inserted(f, o) == IF f = PrimaryField THEN row_ids[o] ELSE <<row_ids[o], timestamps[o]>>

\* The offsets of a call that name a row.
ValidOffsets(r) == Range(rd[r].seg_offsets) \ {INVALID_SEG_OFFSET}

\* C21: bulk_subscript at the offsets of a committed batch returns, for every
\* user field, exactly the values the batch was inserted with, whatever the
\* state of the field and whatever Inserts and releases came after the batch.
C21_BulkSubscriptReturnsInserted ==
    \A r \in Readers :
        rd[r].pc = "done" =>
            \A i \in DOMAIN rd[r].seg_offsets :
                rd[r].seg_offsets[i] # INVALID_SEG_OFFSET =>
                    rd[r].out[i] = Inserted(rd[r].field, rd[r].seg_offsets[i])

\* C22: a reader that chose the chunks of a vector field and is about to copy
\* from them finds the chunk of every row it asked for still in the column.
C22_ReaderFindsChunks ==
    \A r \in Readers :
        rd[r].pc = "copy" => ValidOffsets(r) \subseteq DOMAIN column[rd[r].field]

\* C23: readers share chunk_mutex: while one reader is inside the chunk-copy
\* section, another reader that wants the mutex is let in.
C23_ReadersShareChunkMutex ==
    \A r1, r2 \in Readers :
        (r1 # r2 /\ rd[r1].pc = "copy" /\ rd[r2].pc = "lock") => ENABLED LockChunks(r2)

\* The reservations an Insert can be working on.
Reservations == {<<b, n>> : b \in 0..MaxReserved, n \in 0..MaxRows}

\* The writer is at try_remove_chunks of reservation b.
AtRemove(b) ==
    /\ th[Writer].pc = "remove"
    /\ th[Writer].begin = b[1]
    /\ th[Writer].n = b[2]

\* C24: try_remove_chunks never waits for chunk_mutex.  While a reader holds
\* the mutex the call clears nothing, and the Insert that made the call goes on
\* and commits its interval even if the reader never lets go; a call that
\* finds the mutex free, the field synced and chunks in the column (the next
\* Insert on the field at the latest) releases them.
C24_TryRemoveNeverWaits ==
    /\ [][(th[Writer].pc = "remove" /\ th'[Writer] # th[Writer] /\ chunk_mutex # "free")
             => column' = column]_vars
    /\ \A b \in Reservations : (AtRemove(b) /\ chunk_mutex # "free") ~> (b \in completed)
    /\ [][(/\ th[Writer].pc = "remove"
           /\ th'[Writer] # th[Writer]
           /\ chunk_mutex = "free"
           /\ SyncDataWithIndex(CurField(th[Writer]), index_data))
             => ~HasChunks(column'[CurField(th[Writer])])]_vars

\* A reader is inside the chunk-copy section, the field is synced, its chunks
\* are still there, and the Insert that synced it has committed.
C24_Witness ==
    /\ \E r \in Readers : rd[r].pc = "copy"
    /\ SyncDataWithIndex("vec", index_data)
    /\ HasChunks(column["vec"])
    /\ th[Writer].pc = "idle"
    /\ completed # {}

\* C25: every position of a finished bulk_subscript whose offset is
\* INVALID_SEG_OFFSET holds a zero-filled slot, and the column was not indexed
\* at that offset.
C25_InvalidOffsetYieldsZero ==
    \A r \in Readers :
        rd[r].pc = "done" =>
            /\ \A i \in DOMAIN rd[r].seg_offsets :
                  rd[r].seg_offsets[i] = INVALID_SEG_OFFSET =>
                      rd[r].out[i] = ZeroSlot(rd[r].field)
            /\ INVALID_SEG_OFFSET \notin rd[r].indexed

\* --------------------------------------------------- disk index
\* C26: in the lifetime of one instance at most one Build (Build, BuildV2,
\* BuildWithDataset) or Load (Load, LoadV2) reaches the engine; a second one,
\* or a Load after a Build, is not executed.
C26_OneBuildOrLoad == \A i \in Instances : Len(inst[i].ran) <= 1

\* The step in which the build of instance i comes back from the engine.
BuildReturns(i) == inst[i].pc = "engine" /\ inst'[i].pc = "idle"

\* C27: when a build comes back from the engine, a status other than success
\* is surfaced as IndexBuildError and the staged files are left as they are;
\* on success no error is raised and the staged raw data of the instance is
\* gone.
C27_BuildStatusSurfaced ==
    [][\A i \in Instances :
          BuildReturns(i) =>
              IF dcall'.status = "success"
              THEN dcall'.error = "none" /\ RawDataPath(i) \notin DOMAIN local_fs'
              ELSE dcall'.error = "IndexBuildError" /\ local_fs' = local_fs]_vars

\* C28: while the engine build of an instance has not finished, the raw data
\* the instance staged is still there, whatever the other instances of the
\* segment do.
C28_ScratchOwnedByInstance ==
    \A i \in Instances : inst[i].pc = "engine" => RawDataPath(i) \in DOMAIN local_fs

\* C29: the search-list size Query hands to the engine is at most 200 when
\* topk <= 20 and at most 65535 otherwise.
C29_SearchListBounded ==
    (dcall.op = "Query" /\ dcall.search_config.has_search_list_size) =>
        dcall.search_config.search_list_size <=
            (IF dcall.search_config.topk <= 20 THEN kSearchListMaxValue1
             ELSE kSearchListMaxValue2)

\* num_rows * dim * sizeof(T), computed without loss.
TrueDataSize(dataset) ==
    Mul(Mul(ToBytes(dataset.rows, SizeofU32), ToBytes(dataset.dim, SizeofU32),
            SizeofSizeT + 1),
        ToBytes(SizeofT, 1), SizeofSizeT + 1)

\* C30: the file BuildWithDataset staged carries the row count and the dim of
\* the dataset and a body of exactly num_rows * dim * sizeof(T) bytes.
C30_StagedFileHoldsTrueProduct ==
    \A i \in Instances :
        (/\ inst[i].pc = "engine"
         /\ inst[i].op = "BuildWithDataset"
         /\ RawDataPath(i) \in DOMAIN local_fs
         /\ local_fs[RawDataPath(i)].kind = "dataset")
            => /\ local_fs[RawDataPath(i)].num = ToBytes(inst[i].dataset.rows, SizeofU32)
               /\ local_fs[RawDataPath(i)].dim = ToBytes(inst[i].dataset.dim, SizeofU32)
               /\ Mul(local_fs[RawDataPath(i)].body_bytes, <<1>>, SizeofSizeT + 1)
                      = TrueDataSize(inst[i].dataset)

C32_CommittedLoadCarriesEveryField ==
    (call.op \in LoadOps /\ call.status = "committed") =>
        /\ (SystemFields \cup call.schema) \subseteq call.infos
        /\ call.loaded = call.schema

\* --------------------------------------------------- get_active_count
GetActiveCountStep == call'.op = "get_active_count" /\ call' # call

\* The acked offsets whose insert timestamp is at most ts.
VisibleAt(ts) == {o \in 0..(ack - 1) : timestamps[o] <= ts}

\* C33: get_active_count(ts) returns the number k <= ack of acked rows whose
\* insert timestamp is at most ts, these rows are the offsets [0, k), and the
\* result does not decrease when ts grows, after any sequence of Inserts whose
\* batches each carry sorted timestamps.
C33_ActiveCountIsVisiblePrefix ==
    [][GetActiveCountStep =>
          /\ call'.count <= ack
          /\ call'.count = Cardinality(VisibleAt(call'.ts))
          /\ VisibleAt(call'.ts) = 0..(call'.count - 1)
          /\ \A later \in ReadTs :
                 later >= call'.ts => get_active_count(later) >= call'.count]_vars

\* C34: in the pair search_ids returns, ids and offsets have the same length
\* and the k-th id is the key stored at the k-th offset, for int64 and string
\* keys, also when a key of id_array matches several offsets.
C34_ReturnedIdsAreKeysAtOffsets ==
    [][SearchStep =>
          /\ Len(call'.res_ids) = Len(call'.offsets)
          /\ \A k \in 1..Len(call'.offsets) :
                 call'.res_ids[k] = column[PrimaryField][call'.offsets[k]]]_vars

\* --------------------------------------------------- released chunks
\* try_remove_chunks has cleared the column of the indexed field: the field is
\* synced with its index and its column holds no chunk.
Cleared(f) == SyncDataWithIndex(f, index_data) /\ ~HasChunks(column[f])

\* C35: once try_remove_chunks has cleared a field's column, the write step of
\* no Insert puts raw data into the column again, in every interleaving of
\* concurrent Inserts: the column stays empty.
C35_NoInsertWritesAfterClear ==
    [][\A t \in Threads, f \in Range(SchemaFields) :
          (Cleared(f) /\ th[t].op = "Insert" /\ th[t].pc = "write" /\ th'[t].pc # "write")
              => ~HasChunks(column'[f])]_vars

\* C36: for every user field and every chunk_id below num_chunk(),
\* chunk_data(field, chunk_id) refers to a chunk present in the field's
\* column, also after try_remove_chunks has released the field's chunks.
C36_ChunkDataRefersToPresentChunk ==
    call.op = "chunk_data" => call.span.present

====
